---- MODULE Spec2Model ----
(***************************************************************************)
(* BloodLine server (src/index.js): an Express REST API over four MongoDB  *)
(* collections.  Every request walks its middleware chain (verifyToken,    *)
(* verifyAdmin / verifyVolunteer) and then its route handler; every        *)
(* `await` on the store is a point where another request may interleave,   *)
(* so a handler with several store calls is several steps here.            *)
(***************************************************************************)
EXTENDS Integers, Sequences, FiniteSets, TLC

\* ------------------------------------------------------------------ bounds
MaxInFlight == 2      \* requests the server handles at the same time
MaxUsers == 3         \* user documents ever inserted (the seeded admin included)
MaxRequests == 2      \* donation requests ever inserted
MaxBlogs == 1         \* blogs ever inserted
MaxPayments == 2      \* payments ever inserted
MaxDonations == 11    \* completed donations of one donor in a stored history

Req == 1 .. MaxInFlight

\* ----------------------------------------------------------------- domains
Emails == {"a@x", "b@x"}
Roles == {"donor", "volunteer", "admin"}
UserStatuses == {"active", "blocked"}
RequestStatuses == {"pending", "inprogress", "done", "canceled"}
Undefined == "undefined"

\* The Authorization header as the words split(" ") yields; <<>> is no header.
Headers ==
  { <<>>, <<"Bearer">>, <<"Bearer", "forged">>,
    <<"Bearer", "tok:a@x">>, <<"Bearer", "tok:b@x">> }

\* admin.auth().verifyIdToken(token): the decoded email, or "" when it throws.
verifyIdToken(token) ==
  CASE token = "tok:a@x" -> "a@x"
    [] token = "tok:b@x" -> "b@x"
    [] OTHER -> ""

\* req?.headers?.authorization?.split(" ")[1]; "" stands for undefined.
BearerToken(hdr) == IF Len(hdr) >= 2 THEN hdr[2] ELSE ""

\* -------------------------------------------------------------------- state
VARIABLES
  usersCollection,     \* sequence of user documents, in insertion order
  requestsCollection,  \* sequence of donation-request documents
  blogsCollection,     \* sequence of blog documents
  paymentsCollection,  \* sequence of payment documents
  nextId,              \* per collection: the _id the next insertOne assigns
  stripe,              \* TRUE iff STRIPE_SECRET_KEY was set at process start
  inflight,            \* Req -> the request being handled in that slot
  last                 \* the response the latest step sent, if it sent one

vars ==
  << usersCollection, requestsCollection, blogsCollection, paymentsCollection,
     nextId, stripe, inflight, last >>

store == << usersCollection, requestsCollection, blogsCollection, paymentsCollection >>

\* ---------------------------------------------------------------- documents
NullUser == [id |-> 0, email |-> "", role |-> Undefined, status |-> Undefined,
             profile |-> Undefined]
NullRequest == [id |-> 0, requesterEmail |-> "", status |-> Undefined,
                donorName |-> Undefined, donorEmail |-> Undefined,
                content |-> Undefined, donationDate |-> Undefined]
NullBlog == [id |-> 0, status |-> Undefined, content |-> Undefined]
NullPayment == [id |-> 0, transactionId |-> "", name |-> Undefined,
                email |-> Undefined, amount |-> 0, date |-> 0]

IsNull(doc) == doc.id = 0

\* A query document { field: value, ... } matches the documents that hold
\* each of its values; the empty query matches every document.
Matches(doc, query) == \A f \in DOMAIN query : doc[f] = query[f]

\* `if (value) query.field = value`: the field is added unless value is falsy.
QueryWith(query, field, value) ==
  IF value = "" THEN query
  ELSE [f \in DOMAIN query \cup {field} |-> IF f = field THEN value ELSE query[f]]

\* The positions of the documents of coll that satisfy the query.
Matching(coll, query) == { i \in 1 .. Len(coll) : Matches(coll[i], query) }

Min(S) == CHOOSE x \in S : \A y \in S : x <= y

\* collection.findOne(query): the first match in natural order, or null.
findOne(coll, query, null) ==
  IF Matching(coll, query) = {} THEN null ELSE coll[Min(Matching(coll, query))]

\* The stored document with this id, in a collection.
DocById(coll, id, null) == findOne(coll, [id |-> id], null)

\* collection.find(query).toArray(): the matches in natural order.
find(coll, query) == SelectSeq(coll, LAMBDA doc : Matches(doc, query))

\* collection.updateOne(filter, {$set: set}): the fields of set written to the
\* first match.
updateOne(coll, query, set) ==
  IF Matching(coll, query) = {} THEN coll
  ELSE [coll EXCEPT ![Min(Matching(coll, query))] =
          [f \in DOMAIN @ |-> IF f \in DOMAIN set THEN set[f] ELSE @[f]]]

\* collection.deleteOne(filter): the first match removed.
deleteOne(coll, query) ==
  IF Matching(coll, query) = {} THEN coll
  ELSE LET k == Min(Matching(coll, query))
       IN  SubSeq(coll, 1, k - 1) \o SubSeq(coll, k + 1, Len(coll))

\* ---------------------------------------------------------------- requests
Idle == [pc |-> "idle", op |-> "", hdr |-> << >>, user |-> "", arg |-> << >>,
         loc |-> << >>]

\* What a request is, apart from how far it has got.
NoRequest == [op |-> "", hdr |-> << >>, user |-> "", arg |-> << >>]

\* req: the request answered; by: the middleware or route whose code answered.
NoResponse == [req |-> NoRequest, by |-> "", code |-> 0, message |-> "",
               insertedId |-> 0, count |-> 0, data |-> << >>]

\* The middleware chain each route is registered with.
AdminRoutes ==
  { "GET /all-users", "PATCH /users/status/:id", "PATCH /users/role/:id",
    "GET /all-donation-requests", "POST /blogs", "PATCH /blogs/status/:id",
    "DELETE /blogs/:id" }
VolunteerRoutes == { "GET /admin-stats" }
TokenRoutes ==
  { "POST /donation-request", "GET /donation-requests/:email",
    "DELETE /donation-request/:id", "PATCH /donation-request-status/:id",
    "GET /donation-request/:id", "PUT /donation-request/:id",
    "PUT /donation-request/donate/:id", "GET /all-blood-donation-requests",
    "GET /users/role/:email", "GET /user-stats/:email", "GET /user/:email",
    "PATCH /user/:email", "POST /create-checkout-session",
    "POST /payments/save-session", "GET /funding" }
PublicRoutes ==
  { "GET /search-donors", "GET /donation-requests", "POST /users",
    "GET /blogs", "GET /blogs/:id", "GET /" }
Guarded == TokenRoutes \cup AdminRoutes \cup VolunteerRoutes
Routes == Guarded \cup PublicRoutes

\* The stage that runs after verifyToken called next().
AfterToken(op) ==
  IF op \in AdminRoutes THEN "verifyAdmin"
  ELSE IF op \in VolunteerRoutes THEN "verifyVolunteer"
  ELSE "handler"

\* ------------------------------------------------------------------ inputs
\* What a request carries besides its Authorization header: path parameters,
\* query and body, one record for all routes ("" and 0: not given).
NoArg == [email |-> "", id |-> 0, status |-> "", role |-> "",
          requesterEmail |-> "", donorName |-> "", donorEmail |-> "",
          content |-> "", donationDate |-> Undefined, sessionId |-> ""]

\* Stripe checkout sessions, as stripe.checkout.sessions.retrieve reports them:
\* two paid ones, one still open; any other id makes retrieve throw.
StripeSessions == {"cs_paid1", "cs_paid2", "cs_open"}
retrieve(sessionId) ==
  CASE sessionId = "cs_paid1" ->
         [payment_status |-> "paid", donorName |-> "Ann", donorEmail |-> "a@x", amount |-> 5]
    [] sessionId = "cs_paid2" ->
         [payment_status |-> "paid", donorName |-> "Bob", donorEmail |-> "b@x", amount |-> 7]
    [] sessionId = "cs_open" ->
         [payment_status |-> "unpaid", donorName |-> "Bob", donorEmail |-> "b@x", amount |-> 7]
    [] OTHER ->
         [payment_status |-> "throws", donorName |-> "", donorEmail |-> "", amount |-> 0]

WithEmail == { [NoArg EXCEPT !.email = e] : e \in Emails }
WithStatusQuery == { [NoArg EXCEPT !.status = s] : s \in {"", "pending"} }

\* The inputs each route is exercised with.
Inputs(op) ==
  CASE op = "POST /donation-request" ->
         { [NoArg EXCEPT !.requesterEmail = e, !.status = s, !.content = "c1",
                         !.donationDate = "2026-11-20"] :
             e \in Emails, s \in {"", "done"} }
    [] op = "POST /users" ->
         { [NoArg EXCEPT !.email = e, !.role = rs[1], !.status = rs[2],
                         !.content = "p1"] :
             e \in Emails, rs \in { <<"", "">>, <<"admin", "blocked">> } }
    [] op \in { "GET /users/role/:email", "GET /user-stats/:email", "GET /user/:email" } ->
         WithEmail
    [] op = "GET /donation-requests/:email" ->
         { [NoArg EXCEPT !.email = e, !.status = s] : e \in Emails, s \in {"", "pending"} }
    [] op = "PATCH /user/:email" ->
         { [NoArg EXCEPT !.email = e, !.content = "p2", !.role = "admin",
                         !.status = "active"] : e \in Emails }
    [] op \in { "DELETE /donation-request/:id", "GET /donation-request/:id" } ->
         { [NoArg EXCEPT !.id = i] : i \in 1 .. MaxRequests }
    [] op = "PATCH /donation-request-status/:id" ->
         { [NoArg EXCEPT !.id = i, !.status = s] :
             i \in 1 .. MaxRequests, s \in RequestStatuses \cup {"urgent"} }
    [] op = "PUT /donation-request/:id" ->
         { [NoArg EXCEPT !.id = i, !.content = "c2", !.donationDate = d,
                         !.status = "done", !.donorEmail = "a@x"] :
             i \in 1 .. MaxRequests, d \in {"2026-01-05", "soon"} }
    [] op = "PUT /donation-request/donate/:id" ->
         { [NoArg EXCEPT !.id = i, !.donorName = d[1], !.donorEmail = d[2]] :
             i \in 1 .. MaxRequests, d \in { <<"Ann", "a@x">>, <<"Bob", "b@x">> } }
    [] op \in { "GET /all-users", "GET /all-donation-requests",
                "GET /all-blood-donation-requests", "GET /blogs" } ->
         WithStatusQuery
    [] op = "PATCH /users/status/:id" ->
         { [NoArg EXCEPT !.id = i, !.status = s] : i \in 1 .. MaxUsers, s \in UserStatuses }
    [] op = "PATCH /users/role/:id" ->
         { [NoArg EXCEPT !.id = i, !.role = x] : i \in 1 .. MaxUsers, x \in Roles }
    [] op = "POST /blogs" ->
         { [NoArg EXCEPT !.content = "b1", !.status = s] : s \in {"", "published"} }
    [] op = "PATCH /blogs/status/:id" ->
         { [NoArg EXCEPT !.id = i, !.status = s] :
             i \in 1 .. MaxBlogs, s \in {"draft", "published"} }
    [] op \in { "DELETE /blogs/:id", "GET /blogs/:id" } ->
         { [NoArg EXCEPT !.id = i] : i \in 1 .. MaxBlogs }
    [] op = "POST /payments/save-session" ->
         { [NoArg EXCEPT !.sessionId = x] : x \in StripeSessions \cup {"cs_gone"} }
    [] op = "POST /create-checkout-session" ->
         { [NoArg EXCEPT !.donorName = "Ann", !.donorEmail = "a@x"] }
    [] op = "GET /search-donors" ->
         { [NoArg EXCEPT !.content = c] : c \in {"", "p1"} }
    [] OTHER -> { NoArg }

\* One input per route, for runs that are about the routes, not the inputs.
OneInput(op) ==
  { CHOOSE arg \in Inputs(op) : op = "POST /users" => arg.email = "b@x" }

\* ------------------------------------------------------------------- Init
\* The store as deployed: one administrator seeded by hand (no route creates
\* an admin out of an empty users collection), everything else empty.
SeedAdmin == [id |-> 1, email |-> "a@x", role |-> "admin", status |-> "active",
              profile |-> "p0"]

Init ==
  /\ usersCollection = << SeedAdmin >>
  /\ requestsCollection = << >>
  /\ blogsCollection = << >>
  /\ paymentsCollection = << >>
  /\ nextId = [users |-> 2, requests |-> 1, blogs |-> 1, payments |-> 1]
  /\ stripe \in BOOLEAN
  /\ inflight = [r \in Req |-> Idle]
  /\ last = NoResponse

\* --------------------------------------------------------------- responses
Response(req, by, code, message, insertedId, count, data) ==
  [req |-> req, by |-> by, code |-> code, message |-> message,
   insertedId |-> insertedId, count |-> count, data |-> data]

RequestOf(q) == [op |-> q.op, hdr |-> q.hdr, user |-> q.user, arg |-> q.arg]

\* res.status(code).send(...) by request r: the request is over.
Reply(r, by, code, message, insertedId, count, data) ==
  /\ last' = Response(RequestOf(inflight[r]), by, code, message, insertedId, count, data)
  /\ inflight' = [inflight EXCEPT ![r] = Idle]

\* The route handler of r answers.
Send(r, code, message, data) == Reply(r, inflight[r].op, code, message, 0, 0, data)
SendInserted(r, id) == Reply(r, inflight[r].op, 200, "", id, 0, << >>)
SendCount(r, n) == Reply(r, inflight[r].op, 200, "", 0, n, << >>)

\* The request moves on to its next await without answering.
Goto(r, pc, loc) ==
  /\ inflight' = [inflight EXCEPT ![r].pc = pc, ![r].loc = loc]
  /\ last' = NoResponse

\* A new request is taken by the lowest free slot.
FreeSlot(r) ==
  /\ inflight[r].pc = "idle"
  /\ \A q \in Req : inflight[q].pc = "idle" => r <= q

\* The calls of route op in flight.
Calls(op) == Cardinality({ q \in Req : inflight[q].op = op })

\* The model inserts a bounded number of documents: a request that may insert
\* is taken only while the collection has room for it.
Room(op) ==
  CASE op = "POST /users" -> nextId.users + Calls(op) <= MaxUsers
    [] op = "POST /donation-request" -> nextId.requests + Calls(op) <= MaxRequests
    [] op = "POST /blogs" -> nextId.blogs + Calls(op) <= MaxBlogs
    [] op = "POST /payments/save-session" -> nextId.payments + Calls(op) <= MaxPayments
    [] OTHER -> TRUE

\* sequential: no second call of a route while a call of it is in flight.
Admissible(op, sequential) ==
  /\ Room(op)
  /\ sequential => Calls(op) = 0

\* An async handler throws (its promise rejects) outside any try/catch, and
\* no error middleware is registered.  What happens next depends on the
\* Express and Node versions the deployment installs, which are not pinned:
\*   Express 5 forwards the rejection to its default error handler: 500;
\*   Express 4 ignores the promise: the request is never answered ("hung"),
\*   and Node >= 15 ends the process on the unhandled rejection, so that no
\*   request in flight is ever answered.
Rejected(r) ==
  \/ Reply(r, "express", 500, "Internal Server Error", 0, 0, << >>)
  \/ /\ inflight' = [inflight EXCEPT ![r].pc = "hung"]
     /\ last' = NoResponse
  \/ /\ inflight' = [q \in Req |->
                       IF inflight[q].pc = "idle" THEN inflight[q]
                       ELSE [inflight[q] EXCEPT !.pc = "hung"]]
     /\ last' = NoResponse

At(r, op, pc) == inflight[r].op = op /\ inflight[r].pc = pc


\* matchedCount / deletedCount of an updateOne or deleteOne with this filter.
Matched(coll, query) == IF Matching(coll, query) = {} THEN 0 ELSE 1

\* ------------------------------------------------------------- middleware
\* The token read without verifying it (a decode in place of verifyIdToken): a
\* forged token names whoever its author likes.
TokenVerdictDecodeOnly(hdr) ==
  IF BearerToken(hdr) = "" THEN ""
  ELSE IF verifyIdToken(BearerToken(hdr)) = "" THEN "a@x"
  ELSE verifyIdToken(BearerToken(hdr))

\* verifyToken's verdict on a header: the decoded email, or "" for 401.
TokenVerdict(hdr) ==
  IF BearerToken(hdr) = "" THEN "" ELSE verifyIdToken(BearerToken(hdr))

\* A request for a guarded route arrives and verifyToken runs on it: 401, or
\* req.user is set and next() hands the request to the route's next stage.
verifyToken(r, routes, inputs, sequential) ==
  /\ FreeSlot(r)
  /\ routes \cap Guarded # {}
  /\ \E hdr \in Headers :
       IF TokenVerdict(hdr) = ""
       THEN /\ last' = Response([NoRequest EXCEPT !.hdr = hdr], "verifyToken", 401,
                             "Unauthorized Access!", 0, 0, << >>)
            /\ UNCHANGED inflight
       ELSE \E op \in routes \cap Guarded :
              \E arg \in inputs[op] :
                /\ Admissible(op, sequential)
                /\ inflight' = [inflight EXCEPT ![r] =
                     [pc |-> AfterToken(op), op |-> op, hdr |-> hdr,
                      user |-> TokenVerdict(hdr), arg |-> arg, loc |-> << >>]]
                /\ last' = NoResponse
  /\ UNCHANGED << store, nextId, stripe >>

\* A request for a public route arrives; its handler runs next.
Accept(r, routes, inputs, sequential) ==
  /\ FreeSlot(r)
  /\ \E op \in routes \cap PublicRoutes :
       \E arg \in inputs[op] :
         /\ Admissible(op, sequential)
         /\ inflight' = [inflight EXCEPT ![r] =
              [pc |-> "handler", op |-> op, hdr |-> << >>, user |-> "",
               arg |-> arg, loc |-> << >>]]
  /\ last' = NoResponse
  /\ UNCHANGED << store, nextId, stripe >>

\* usersCollection.findOne({ email }) with email = req.user.email
Caller(r) == findOne(usersCollection, [email |-> inflight[r].user], NullUser)

\* The volunteer middleware's test used for admins too.
AdminAdmitsStaff(user) == user.role = "volunteer" \/ user.role = "admin"

\* the negation of: user?.role !== "admin"
AdminAdmits(user) == user.role = "admin"

verifyAdmin(r) ==
  /\ inflight[r].pc = "verifyAdmin"
  /\ IF AdminAdmits(Caller(r))
     THEN Goto(r, "handler", << >>)
     ELSE Reply(r, "verifyAdmin", 403, "Forbidden Access! Admins Only.", 0, 0, << >>)
  /\ UNCHANGED << store, nextId, stripe >>

\* the negation of: user?.role !== "volunteer" && user?.role !== "admin"
VolunteerAdmits(user) == user.role = "volunteer" \/ user.role = "admin"

verifyVolunteer(r) ==
  /\ inflight[r].pc = "verifyVolunteer"
  /\ IF VolunteerAdmits(Caller(r))
     THEN Goto(r, "handler", << >>)
     ELSE Reply(r, "verifyVolunteer", 403, "Forbidden Access! Volunteers Only.", 0, 0, << >>)
  /\ UNCHANGED << store, nextId, stripe >>

\* ------------------------------------------------- POST /donation-request
\* The spread written last: { status: "pending", ...request }.
newRequestBodyWins(body, id) ==
  [id |-> id, requesterEmail |-> body.requesterEmail,
   status |-> IF body.status = "" THEN "pending" ELSE body.status,
   donorName |-> Undefined, donorEmail |-> Undefined,
   content |-> body.content, donationDate |-> body.donationDate]

\* { ...request, status: "pending" }
newRequest(body, id) ==
  [id |-> id, requesterEmail |-> body.requesterEmail, status |-> "pending",
   donorName |-> Undefined, donorEmail |-> Undefined,
   content |-> body.content, donationDate |-> body.donationDate]

\* The comparison against another spelling: requester.status === "Blocked".
IsBlockedMisspelt(requester) == requester.status = "Blocked"

\* requester.status === "blocked"
IsBlocked(requester) == requester.status = "blocked"

\* const requester = await usersCollection.findOne(...); the blocked check.
postDonationRequest_findOne(r) ==
  /\ At(r, "POST /donation-request", "handler")
  /\ IF IsNull(Caller(r))
     THEN Rejected(r)          \* requester is null: requester.status throws
     ELSE IF IsBlocked(Caller(r))
     THEN Send(r, 403, "Blocked users cannot create donation requests", << >>)
     ELSE Goto(r, "insertOne", << >>)
  /\ UNCHANGED << store, nextId, stripe >>

\* await requestsCollection.insertOne(newRequest); res.send(result)
postDonationRequest_insertOne(r) ==
  /\ At(r, "POST /donation-request", "insertOne")
  /\ requestsCollection' =
       Append(requestsCollection, newRequest(inflight[r].arg, nextId.requests))
  /\ nextId' = [nextId EXCEPT !.requests = @ + 1]
  /\ SendInserted(r, nextId.requests)
  /\ UNCHANGED << usersCollection, blogsCollection, paymentsCollection, stripe >>

\* ------------------------------------------------------------ POST /users
\* The spread written last: { role: "donor", status: "active", ...user }.
newUserBodyWins(body, id) ==
  [id |-> id, email |-> body.email,
   role |-> IF body.role = "" THEN "donor" ELSE body.role,
   status |-> IF body.status = "" THEN "active" ELSE body.status,
   profile |-> body.content]

\* { ...user, role: "donor", status: "active", timestamp: new Date() }
newUser(body, id) ==
  [id |-> id, email |-> body.email, role |-> "donor", status |-> "active",
   profile |-> body.content]

\* The query on a field the body does not have, { email: user.mail }: no match.
existingUserWrongField(email) == NullUser

\* existingUser, as usersCollection.findOne({ email: user.email }) returns it
existingUser(email) == findOne(usersCollection, [email |-> email], NullUser)

\* const existingUser = await usersCollection.findOne(query); the early return.
postUsers_findOne(r) ==
  /\ At(r, "POST /users", "handler")
  /\ IF ~IsNull(existingUser(inflight[r].arg.email))
     THEN Send(r, 200, "user already exists", << >>)
     ELSE Goto(r, "insertOne", << >>)
  /\ UNCHANGED << store, nextId, stripe >>

\* An insert that a unique index on email would refuse.
insertUserIfAbsent(coll, doc) ==
  IF \E i \in 1 .. Len(coll) : coll[i].email = doc.email THEN coll ELSE Append(coll, doc)

\* usersCollection after insertOne(newUser).
insertUser(coll, doc) == Append(coll, doc)

\* await usersCollection.insertOne(newUser); res.send(result)
postUsers_insertOne(r) ==
  /\ At(r, "POST /users", "insertOne")
  /\ usersCollection' =
       insertUser(usersCollection, newUser(inflight[r].arg, nextId.users))
  /\ nextId' = [nextId EXCEPT !.users = @ + 1]
  /\ SendInserted(r, nextId.users)
  /\ UNCHANGED << requestsCollection, blogsCollection, paymentsCollection, stripe >>

\* ------------------------------------------- donation requests: one by id
\* A handler whose only store call is an updateOne / deleteOne on
\* requestsCollection: the collection after it, and the count it reports.
RequestsWrite(r, after) ==
  /\ requestsCollection' = after
  /\ SendCount(r, Matched(requestsCollection, [id |-> inflight[r].arg.id]))
  /\ UNCHANGED << usersCollection, blogsCollection, paymentsCollection, nextId, stripe >>

\* A handler that only reads: it answers and changes nothing.
ReadOnly(r, code, message, data) ==
  /\ Send(r, code, message, data)
  /\ UNCHANGED << store, nextId, stripe >>

\* one document as a response body: the document, or nothing for null
Body(doc) == IF IsNull(doc) THEN << >> ELSE << doc >>

\* No check at all, as in GET /user/:email.
IsSelfUnchecked(r) == TRUE

\* the negation of: req.user.email !== email, email = req.params.email
IsSelf(r) == inflight[r].user = inflight[r].arg.email

\* GET /donation-requests/:email
getDonationRequestsByEmail(r) ==
  /\ At(r, "GET /donation-requests/:email", "handler")
  /\ IF ~IsSelf(r)
     THEN ReadOnly(r, 403, "forbidden access", << >>)
     ELSE ReadOnly(r, 200, "",
            find(requestsCollection,
                 QueryWith([requesterEmail |-> inflight[r].arg.email], "status",
                           inflight[r].arg.status)))

\* The delete with the ownership filter it lacks:
\* { _id, requesterEmail: req.user.email }.
deleteDonationRequestOwnOnly(r) ==
  /\ At(r, "DELETE /donation-request/:id", "handler")
  /\ requestsCollection' =
       deleteOne(requestsCollection,
                 [id |-> inflight[r].arg.id, requesterEmail |-> inflight[r].user])
  /\ SendCount(r, Matched(requestsCollection,
                          [id |-> inflight[r].arg.id, requesterEmail |-> inflight[r].user]))
  /\ UNCHANGED << usersCollection, blogsCollection, paymentsCollection, nextId, stripe >>

\* DELETE /donation-request/:id
deleteDonationRequest(r) ==
  /\ At(r, "DELETE /donation-request/:id", "handler")
  /\ RequestsWrite(r, deleteOne(requestsCollection, [id |-> inflight[r].arg.id]))

\* The status update with a guard on the current status: a request that is
\* "done" is matched but not written.
patchDonationRequestStatusUnlessDone(r) ==
  /\ At(r, "PATCH /donation-request-status/:id", "handler")
  /\ RequestsWrite(r,
       IF DocById(requestsCollection, inflight[r].arg.id, NullRequest).status = "done"
       THEN requestsCollection
       ELSE updateOne(requestsCollection, [id |-> inflight[r].arg.id],
                      [status |-> inflight[r].arg.status]))

\* PATCH /donation-request-status/:id: { $set: { status: status } }
patchDonationRequestStatus(r) ==
  /\ At(r, "PATCH /donation-request-status/:id", "handler")
  /\ RequestsWrite(r,
       updateOne(requestsCollection, [id |-> inflight[r].arg.id],
                 [status |-> inflight[r].arg.status]))

\* GET /donation-request/:id
getDonationRequest(r) ==
  /\ At(r, "GET /donation-request/:id", "handler")
  /\ ReadOnly(r, 200, "",
       Body(findOne(requestsCollection, [id |-> inflight[r].arg.id], NullRequest)))

\* The content update without its allow-list: { $set: body }.
putDonationRequestWholeBody(r) ==
  /\ At(r, "PUT /donation-request/:id", "handler")
  /\ RequestsWrite(r,
       updateOne(requestsCollection, [id |-> inflight[r].arg.id],
                 [content |-> inflight[r].arg.content,
                  donationDate |-> inflight[r].arg.donationDate,
                  status |-> inflight[r].arg.status,
                  donorEmail |-> inflight[r].arg.donorEmail]))

\* PUT /donation-request/:id: $set of the nine content fields of the body
putDonationRequest(r) ==
  /\ At(r, "PUT /donation-request/:id", "handler")
  /\ RequestsWrite(r,
       updateOne(requestsCollection, [id |-> inflight[r].arg.id],
                 [content |-> inflight[r].arg.content,
                  donationDate |-> inflight[r].arg.donationDate]))

\* The donate action with the transition check it lacks: the filter also
\* asks for status "pending".
putDonateIfPending(r) ==
  /\ At(r, "PUT /donation-request/donate/:id", "handler")
  /\ RequestsWrite(r,
       updateOne(requestsCollection, [id |-> inflight[r].arg.id, status |-> "pending"],
                 [status |-> "inprogress",
                  donorName |-> inflight[r].arg.donorName,
                  donorEmail |-> inflight[r].arg.donorEmail]))

\* PUT /donation-request/donate/:id
putDonate(r) ==
  /\ At(r, "PUT /donation-request/donate/:id", "handler")
  /\ RequestsWrite(r,
       updateOne(requestsCollection, [id |-> inflight[r].arg.id],
                 [status |-> "inprogress",
                  donorName |-> inflight[r].arg.donorName,
                  donorEmail |-> inflight[r].arg.donorEmail]))

\* ---------------------------------------------------------- public routes
\* GET /search-donors: active users, filtered by the profile fields given
getSearchDonors(r) ==
  /\ At(r, "GET /search-donors", "handler")
  /\ ReadOnly(r, 200, "",
       find(usersCollection,
            QueryWith([status |-> "active"], "profile", inflight[r].arg.content)))

\* The public list without its filter: find().
getDonationRequestsUnfiltered(r) ==
  /\ At(r, "GET /donation-requests", "handler")
  /\ ReadOnly(r, 200, "", find(requestsCollection, << >>))

\* GET /donation-requests: find({ status: "pending" })
getDonationRequests(r) ==
  /\ At(r, "GET /donation-requests", "handler")
  /\ ReadOnly(r, 200, "", find(requestsCollection, [status |-> "pending"]))

\* GET /
getRoot(r) ==
  /\ At(r, "GET /", "handler")
  /\ ReadOnly(r, 200, "BloodLine Server is Running...", << >>)

\* ------------------------------------------------------------ admin routes
\* A handler whose only store call is an updateOne on usersCollection.
UsersWrite(r, filter, after) ==
  /\ usersCollection' = after
  /\ SendCount(r, Matched(usersCollection, filter))
  /\ UNCHANGED << requestsCollection, blogsCollection, paymentsCollection, nextId, stripe >>

\* GET /all-users
getAllUsers(r) ==
  /\ At(r, "GET /all-users", "handler")
  /\ ReadOnly(r, 200, "",
       find(usersCollection, QueryWith(<< >>, "status", inflight[r].arg.status)))

\* PATCH /users/status/:id: { $set: { status: status } }
patchUserStatus(r) ==
  /\ At(r, "PATCH /users/status/:id", "handler")
  /\ UsersWrite(r, [id |-> inflight[r].arg.id],
       updateOne(usersCollection, [id |-> inflight[r].arg.id],
                 [status |-> inflight[r].arg.status]))

\* PATCH /users/role/:id: { $set: { role: role } }
patchUserRole(r) ==
  /\ At(r, "PATCH /users/role/:id", "handler")
  /\ UsersWrite(r, [id |-> inflight[r].arg.id],
       updateOne(usersCollection, [id |-> inflight[r].arg.id],
                 [role |-> inflight[r].arg.role]))

\* GET /all-donation-requests
getAllDonationRequests(r) ==
  /\ At(r, "GET /all-donation-requests", "handler")
  /\ ReadOnly(r, 200, "",
       find(requestsCollection, QueryWith(<< >>, "status", inflight[r].arg.status)))

\* ------------------------------------- GET /all-blood-donation-requests
\* the negation of: user.role !== "admin" && user.role !== "volunteer"
StaffAdmits(user) == user.role = "admin" \/ user.role = "volunteer"

\* const user = await usersCollection.findOne({ email }); the inline check.
getAllBlood_findOne(r) ==
  /\ At(r, "GET /all-blood-donation-requests", "handler")
  /\ IF IsNull(Caller(r))
     THEN Rejected(r)          \* user is null: user.role throws
     ELSE IF ~StaffAdmits(Caller(r))
     THEN Send(r, 403, "forbidden access", << >>)
     ELSE Goto(r, "find", << >>)
  /\ UNCHANGED << store, nextId, stripe >>

\* await requestsCollection.find(query).toArray(); res.send(result)
getAllBlood_find(r) ==
  /\ At(r, "GET /all-blood-donation-requests", "find")
  /\ ReadOnly(r, 200, "",
       find(requestsCollection, QueryWith(<< >>, "status", inflight[r].arg.status)))

\* ----------------------------------------------------------- user profile
\* GET /users/role/:email: 403 unless the token email is the path email
getUserRole(r) ==
  /\ At(r, "GET /users/role/:email", "handler")
  /\ IF ~IsSelf(r)
     THEN ReadOnly(r, 403, "forbidden access", << >>)
     ELSE ReadOnly(r, 200, "",
            << [role |-> findOne(usersCollection,
                                 [email |-> inflight[r].arg.email],
                                 NullUser).role] >>)

\* GET /user/:email: findOne({ email }) of the path email
getUser(r) ==
  /\ At(r, "GET /user/:email", "handler")
  /\ ReadOnly(r, 200, "",
       Body(findOne(usersCollection, [email |-> inflight[r].arg.email], NullUser)))

\* PATCH /user/:email: $set of name, avatar, district, upazila, bloodGroup, phone
patchUser(r) ==
  /\ At(r, "PATCH /user/:email", "handler")
  /\ UsersWrite(r, [email |-> inflight[r].arg.email],
       updateOne(usersCollection, [email |-> inflight[r].arg.email],
                 [profile |-> inflight[r].arg.content]))

\* ------------------------------------------------------------------ blogs
\* The spread written last: { status: "draft", createdAt: new Date(), ...blog }.
newBlogBodyWins(body, id) ==
  [id |-> id, status |-> IF body.status = "" THEN "draft" ELSE body.status,
   content |-> body.content]

\* { ...blog, status: "draft", createdAt: new Date() }
newBlog(body, id) == [id |-> id, status |-> "draft", content |-> body.content]

BlogsWrite(r, after) ==
  /\ blogsCollection' = after
  /\ SendCount(r, Matched(blogsCollection, [id |-> inflight[r].arg.id]))
  /\ UNCHANGED << usersCollection, requestsCollection, paymentsCollection, nextId, stripe >>

\* POST /blogs
postBlogs(r) ==
  /\ At(r, "POST /blogs", "handler")
  /\ blogsCollection' = Append(blogsCollection, newBlog(inflight[r].arg, nextId.blogs))
  /\ nextId' = [nextId EXCEPT !.blogs = @ + 1]
  /\ SendInserted(r, nextId.blogs)
  /\ UNCHANGED << usersCollection, requestsCollection, paymentsCollection, stripe >>

\* GET /blogs
getBlogs(r) ==
  /\ At(r, "GET /blogs", "handler")
  /\ ReadOnly(r, 200, "",
       find(blogsCollection, QueryWith(<< >>, "status", inflight[r].arg.status)))

\* GET /blogs/:id
getBlog(r) ==
  /\ At(r, "GET /blogs/:id", "handler")
  /\ ReadOnly(r, 200, "",
       Body(findOne(blogsCollection, [id |-> inflight[r].arg.id], NullBlog)))

\* PATCH /blogs/status/:id
patchBlogStatus(r) ==
  /\ At(r, "PATCH /blogs/status/:id", "handler")
  /\ BlogsWrite(r,
       updateOne(blogsCollection, [id |-> inflight[r].arg.id],
                 [status |-> inflight[r].arg.status]))

\* DELETE /blogs/:id
deleteBlog(r) ==
  /\ At(r, "DELETE /blogs/:id", "handler")
  /\ BlogsWrite(r, deleteOne(blogsCollection, [id |-> inflight[r].arg.id]))

\* --------------------------------------------------------------- payments
\* POST /create-checkout-session: no store call; the session is Stripe's, and
\* stripe.checkout.sessions.create may throw outside any try/catch.
postCreateCheckoutSession(r) ==
  /\ At(r, "POST /create-checkout-session", "handler")
  /\ IF ~stripe
     THEN Send(r, 500, "Stripe is not configured on the server.", << >>)
     ELSE \/ Send(r, 200, "", << [url |-> "https://checkout.stripe.com/session"] >>)
          \/ Rejected(r)
  /\ UNCHANGED << store, nextId, stripe >>

\* { name, email, amount, transactionId: sessionId, date: new Date() }; the
\* clock is the order of the inserts.
newPayment(sessionId, id) ==
  [id |-> id, transactionId |-> sessionId, name |-> retrieve(sessionId).donorName,
   email |-> retrieve(sessionId).donorEmail, amount |-> retrieve(sessionId).amount,
   date |-> id]

\* The query on the field name of the body, { sessionId }: no match.
existingWrongField(sessionId) == NullPayment

\* existing, as paymentsCollection.findOne({ transactionId: sessionId }) returns it
existing(sessionId) ==
  findOne(paymentsCollection, [transactionId |-> sessionId], NullPayment)

\* The handler without its payment_status check: any session that stripe
\* knows goes on to be recorded.
saveSession_retrieveUnchecked(r) ==
  /\ At(r, "POST /payments/save-session", "handler")
  /\ IF ~stripe
     THEN Send(r, 500, "Stripe error", << >>)
     ELSE IF retrieve(inflight[r].arg.sessionId).payment_status = "throws"
     THEN Send(r, 500, "Error verifying payment", << >>)
     ELSE Goto(r, "findOne", << >>)
  /\ UNCHANGED << store, nextId, stripe >>

\* if (!stripe) ...; await stripe.checkout.sessions.retrieve(sessionId); the
\* payment_status check.  A throw lands in the handler's catch.
saveSession_retrieve(r) ==
  /\ At(r, "POST /payments/save-session", "handler")
  /\ IF ~stripe
     THEN Send(r, 500, "Stripe error", << >>)
     ELSE IF retrieve(inflight[r].arg.sessionId).payment_status = "throws"
     THEN Send(r, 500, "Error verifying payment", << >>)
     ELSE IF retrieve(inflight[r].arg.sessionId).payment_status = "paid"
     THEN Goto(r, "findOne", << >>)
     ELSE Send(r, 400, "Payment not paid", << >>)
  /\ UNCHANGED << store, nextId, stripe >>

\* const existing = await paymentsCollection.findOne(...); the early return.
saveSession_findOne(r) ==
  /\ At(r, "POST /payments/save-session", "findOne")
  /\ IF ~IsNull(existing(inflight[r].arg.sessionId))
     THEN Send(r, 200, "Payment already saved", << >>)
     ELSE Goto(r, "insertOne", << >>)
  /\ UNCHANGED << store, nextId, stripe >>

\* An insert that a unique index on transactionId would refuse.
insertPaymentIfAbsent(coll, doc) ==
  IF \E i \in 1 .. Len(coll) : coll[i].transactionId = doc.transactionId
  THEN coll ELSE Append(coll, doc)

\* replaceOne({ transactionId }, payment, { upsert: true }) in place of the
\* insert: a recorded session is written over.
insertPaymentUpsert(coll, doc) ==
  IF \E i \in 1 .. Len(coll) : coll[i].transactionId = doc.transactionId
  THEN [coll EXCEPT ![Min(Matching(coll, [transactionId |-> doc.transactionId]))] = doc]
  ELSE Append(coll, doc)

\* paymentsCollection after insertOne(payment).
insertPayment(coll, doc) == Append(coll, doc)

\* await paymentsCollection.insertOne(payment); res.send(result)
saveSession_insertOne(r) ==
  /\ At(r, "POST /payments/save-session", "insertOne")
  /\ paymentsCollection' =
       insertPayment(paymentsCollection, newPayment(inflight[r].arg.sessionId, nextId.payments))
  /\ nextId' = [nextId EXCEPT !.payments = @ + 1]
  /\ SendInserted(r, nextId.payments)
  /\ UNCHANGED << usersCollection, requestsCollection, blogsCollection, stripe >>

\* .sort({ date: -1 }): latest first.
RECURSIVE SortByDateDesc(_)
SortByDateDesc(coll) ==
  IF coll = << >> THEN << >>
  ELSE LET k == CHOOSE i \in 1 .. Len(coll) :
                  \A j \in 1 .. Len(coll) :
                    coll[j].date < coll[i].date \/ (coll[j].date = coll[i].date /\ i <= j)
       IN  << coll[k] >> \o
           SortByDateDesc(SubSeq(coll, 1, k - 1) \o SubSeq(coll, k + 1, Len(coll)))

\* GET /funding
getFunding(r) ==
  /\ At(r, "GET /funding", "handler")
  /\ ReadOnly(r, 200, "", SortByDateDesc(paymentsCollection))

\* ------------------------------------------------------------------ dates
\* The day the requests are served on: new Date().
Now == [year |-> 2026, month |-> 11]

\* new Date(donationDate): year and month of an ISO date, or invalid (NaN).
ParseDate(text) ==
  CASE text = "2026-11-20" -> [valid |-> TRUE, year |-> 2026, month |-> 11]
    [] text = "2026-01-05" -> [valid |-> TRUE, year |-> 2026, month |-> 1]
    [] OTHER -> [valid |-> FALSE, year |-> 0, month |-> 0]

\* ------------------------------------------------- GET /user-stats/:email
\* The thresholds taken inclusively: >= 10 and >= 5.
LevelFrom(donations) ==
  IF donations >= 10 THEN "Gold" ELSE IF donations >= 5 THEN "Silver" ELSE "Bronze"

\* donations > 10 ? "Gold" : donations > 5 ? "Silver" : "Bronze"
Level(donations) ==
  IF donations > 10 THEN "Gold" ELSE IF donations > 5 THEN "Silver" ELSE "Bronze"

\* The body of the answer, from the two lists read.
UserStats(donorStats, requesterStats) ==
  [donations |-> Len(donorStats),
   requests |-> Len(requesterStats),
   activeRequests |->
     Len(SelectSeq(requesterStats,
                   LAMBDA d : d.status = "pending" \/ d.status = "inprogress")),
   thisMonth |->
     Len(SelectSeq(donorStats,
                   LAMBDA d : /\ ParseDate(d.donationDate).valid
                              /\ ParseDate(d.donationDate).month = Now.month
                              /\ ParseDate(d.donationDate).year = Now.year)),
   successRate |-> IF Len(donorStats) > 0 THEN 100 ELSE 0,
   level |-> Level(Len(donorStats)),
   helped |-> Len(donorStats),
   avgResponseTime |-> 2]

\* The token check, then donorStats = await find({ donorEmail, status: "done" }).
getUserStats_donor(r) ==
  /\ At(r, "GET /user-stats/:email", "handler")
  /\ IF ~IsSelf(r)
     THEN Send(r, 403, "forbidden access", << >>)
     ELSE Goto(r, "requesterStats",
            find(requestsCollection,
                 [donorEmail |-> inflight[r].arg.email, status |-> "done"]))
  /\ UNCHANGED << store, nextId, stripe >>

\* requesterStats = await find({ requesterEmail }); res.send({...}).
getUserStats_requester(r) ==
  /\ At(r, "GET /user-stats/:email", "requesterStats")
  /\ ReadOnly(r, 200, "",
       << UserStats(inflight[r].loc,
                    find(requestsCollection,
                         [requesterEmail |-> inflight[r].arg.email])) >>)

\* ------------------------------------------------------- GET /admin-stats
RECURSIVE SumAmount(_)
SumAmount(coll) ==
  IF coll = << >> THEN 0 ELSE coll[1].amount + SumAmount(Tail(coll))

\* [{ $group: { _id: key, count: { $sum: 1 } } }]: one entry per key present.
GroupCount(keys) ==
  { [key |-> k, count |-> Cardinality({ i \in 1 .. Len(keys) : keys[i] = k })] :
      k \in { keys[i] : i \in 1 .. Len(keys) } }

\* $convert of donationDate to a date, onError and onNull: new Date().
ConvertDate(text) ==
  IF ParseDate(text).valid
  THEN [year |-> ParseDate(text).year, month |-> ParseDate(text).month]
  ELSE Now

\* The monthly aggregation: $project month and year, $group, $sort.
MonthlyStats(coll) ==
  GroupCount([i \in 1 .. Len(coll) |-> ConvertDate(coll[i].donationDate)])

\* The six reads of the handler, one await each; every result is kept in a
\* local until res.send, which leaves monthlyStats out.
getAdminStats_users(r) ==
  /\ At(r, "GET /admin-stats", "handler")
  /\ Goto(r, "bloodRequests", [users |-> Len(usersCollection)])
  /\ UNCHANGED << store, nextId, stripe >>

getAdminStats_requests(r) ==
  /\ At(r, "GET /admin-stats", "bloodRequests")
  /\ Goto(r, "payments",
       [users |-> inflight[r].loc.users, bloodRequests |-> Len(requestsCollection)])
  /\ UNCHANGED << store, nextId, stripe >>

getAdminStats_payments(r) ==
  /\ At(r, "GET /admin-stats", "payments")
  /\ Goto(r, "monthlyStats",
       [users |-> inflight[r].loc.users,
        bloodRequests |-> inflight[r].loc.bloodRequests,
        revenue |-> SumAmount(paymentsCollection),
        totalDonations |-> Len(paymentsCollection)])
  /\ UNCHANGED << store, nextId, stripe >>

getAdminStats_monthly(r) ==
  /\ At(r, "GET /admin-stats", "monthlyStats")
  /\ Goto(r, "statusStats",
       [users |-> inflight[r].loc.users,
        bloodRequests |-> inflight[r].loc.bloodRequests,
        revenue |-> inflight[r].loc.revenue,
        totalDonations |-> inflight[r].loc.totalDonations,
        monthlyStats |-> MonthlyStats(requestsCollection)])
  /\ UNCHANGED << store, nextId, stripe >>

getAdminStats_status(r) ==
  /\ At(r, "GET /admin-stats", "statusStats")
  /\ Goto(r, "userStats",
       [users |-> inflight[r].loc.users,
        bloodRequests |-> inflight[r].loc.bloodRequests,
        revenue |-> inflight[r].loc.revenue,
        totalDonations |-> inflight[r].loc.totalDonations,
        monthlyStats |-> inflight[r].loc.monthlyStats,
        statusStats |-> GroupCount([i \in 1 .. Len(requestsCollection) |->
                                     requestsCollection[i].status])])
  /\ UNCHANGED << store, nextId, stripe >>

getAdminStats_send(r) ==
  /\ At(r, "GET /admin-stats", "userStats")
  /\ ReadOnly(r, 200, "",
       << [users |-> inflight[r].loc.users,
           bloodRequests |-> inflight[r].loc.bloodRequests,
           revenue |-> inflight[r].loc.revenue,
           totalDonations |-> inflight[r].loc.totalDonations,
           statusStats |-> inflight[r].loc.statusStats,
           userStats |-> GroupCount([i \in 1 .. Len(usersCollection) |->
                                   usersCollection[i].status])] >>)

\* --------------------------------------------------------- specifications
\* The route handlers, whichever requests are in flight.
Handle(r) ==
  \/ postDonationRequest_findOne(r)
  \/ postDonationRequest_insertOne(r)
  \/ getDonationRequestsByEmail(r)
  \/ deleteDonationRequest(r)
  \/ patchDonationRequestStatus(r)
  \/ getDonationRequest(r)
  \/ putDonationRequest(r)
  \/ putDonate(r)
  \/ getSearchDonors(r)
  \/ getDonationRequests(r)
  \/ getAllUsers(r)
  \/ patchUserStatus(r)
  \/ patchUserRole(r)
  \/ getAllDonationRequests(r)
  \/ getAllBlood_findOne(r)
  \/ getAllBlood_find(r)
  \/ postUsers_findOne(r)
  \/ postUsers_insertOne(r)
  \/ getUserRole(r)
  \/ getUserStats_donor(r)
  \/ getUserStats_requester(r)
  \/ getUser(r)
  \/ patchUser(r)
  \/ postBlogs(r)
  \/ getBlogs(r)
  \/ getBlog(r)
  \/ patchBlogStatus(r)
  \/ deleteBlog(r)
  \/ postCreateCheckoutSession(r)
  \/ saveSession_retrieve(r)
  \/ saveSession_findOne(r)
  \/ saveSession_insertOne(r)
  \/ getFunding(r)
  \/ getAdminStats_users(r)
  \/ getAdminStats_requests(r)
  \/ getAdminStats_payments(r)
  \/ getAdminStats_monthly(r)
  \/ getAdminStats_status(r)
  \/ getAdminStats_send(r)
  \/ getRoot(r)

\* Every route, one input each, one request at a time.
NextAll ==
  \E r \in {1} :
    \/ verifyToken(r, Routes, [op \in Routes |-> OneInput(op)], FALSE)
    \/ Accept(r, Routes, [op \in Routes |-> OneInput(op)], FALSE)
    \/ verifyAdmin(r)
    \/ verifyVolunteer(r)
    \/ Handle(r)

SpecAll == Init /\ [][NextAll]_vars

\* Creating requests: sign-in, the create route and the admin's block switch,
\* with requests overlapping.
CreateRoutes == { "POST /donation-request", "POST /users", "PATCH /users/status/:id" }

Next ==
  \E r \in Req :
    \/ verifyToken(r, CreateRoutes, [op \in Routes |-> Inputs(op)], FALSE)
    \/ Accept(r, CreateRoutes, [op \in Routes |-> Inputs(op)], FALSE)
    \/ verifyAdmin(r)
    \/ postDonationRequest_findOne(r)
    \/ postDonationRequest_insertOne(r)
    \/ postUsers_findOne(r)
    \/ postUsers_insertOne(r)
    \/ patchUserStatus(r)

Spec == Init /\ [][Next]_vars

\* The self-only reads, over a store that sign-in, create, donate and the
\* status update fill; one request at a time.
SelfRoutes ==
  { "GET /users/role/:email", "GET /donation-requests/:email",
    "GET /user-stats/:email", "POST /users", "POST /donation-request",
    "PUT /donation-request/donate/:id", "PATCH /donation-request-status/:id" }

NextSelf ==
  \E r \in {1} :
    \/ verifyToken(r, SelfRoutes, [op \in Routes |-> Inputs(op)], FALSE)
    \/ Accept(r, SelfRoutes, [op \in Routes |-> Inputs(op)], FALSE)
    \/ getUserRole(r)
    \/ getDonationRequestsByEmail(r)
    \/ getUserStats_donor(r)
    \/ getUserStats_requester(r)
    \/ postUsers_findOne(r)
    \/ postUsers_insertOne(r)
    \/ postDonationRequest_findOne(r)
    \/ postDonationRequest_insertOne(r)
    \/ putDonate(r)
    \/ patchDonationRequestStatus(r)

SpecSelf == Init /\ [][NextSelf]_vars

\* The role-gated routes, one input each, with sign-in and every role update;
\* one request at a time, except that a role update may overlap it.
RoleRoutes ==
  AdminRoutes \cup VolunteerRoutes \cup { "GET /all-blood-donation-requests", "POST /users" }

RoleInputs(op) == IF op = "PATCH /users/role/:id" THEN Inputs(op) ELSE OneInput(op)

NextRoles ==
  \/ \E r \in {1} :
       \/ verifyToken(r, RoleRoutes, [op \in Routes |-> RoleInputs(op)], FALSE)
       \/ Accept(r, RoleRoutes, [op \in Routes |-> RoleInputs(op)], FALSE)
       \/ verifyAdmin(r)
       \/ verifyVolunteer(r)
       \/ getAllUsers(r)
       \/ patchUserStatus(r)
       \/ patchUserRole(r)
       \/ getAllDonationRequests(r)
       \/ postBlogs(r)
       \/ patchBlogStatus(r)
       \/ deleteBlog(r)
       \/ getAllBlood_findOne(r)
       \/ getAllBlood_find(r)
       \/ getAdminStats_users(r)
       \/ getAdminStats_requests(r)
       \/ getAdminStats_payments(r)
       \/ getAdminStats_monthly(r)
       \/ getAdminStats_status(r)
       \/ getAdminStats_send(r)
       \/ postUsers_findOne(r)
       \/ postUsers_insertOne(r)
  \/ \E r \in {2} :
       \/ verifyToken(r, {"PATCH /users/role/:id"}, [op \in Routes |-> RoleInputs(op)], FALSE)
       \/ verifyAdmin(r)
       \/ patchUserRole(r)

SpecRoles == Init /\ [][NextRoles]_vars

\* Sign-in and payment recording, no call of a route overlapping another call
\* of the same route; calls of different routes overlap.
SeqRoutes == { "POST /users", "POST /payments/save-session", "PATCH /users/role/:id" }

NextSeq ==
  \E r \in Req :
    \/ verifyToken(r, SeqRoutes, [op \in Routes |-> Inputs(op)], TRUE)
    \/ Accept(r, SeqRoutes, [op \in Routes |-> Inputs(op)], TRUE)
    \/ verifyAdmin(r)
    \/ postUsers_findOne(r)
    \/ postUsers_insertOne(r)
    \/ saveSession_retrieve(r)
    \/ saveSession_findOne(r)
    \/ saveSession_insertOne(r)
    \/ patchUserRole(r)

SpecSeq == Init /\ [][NextSeq]_vars

\* The payment routes, with requests overlapping.
PayRoutes == { "POST /create-checkout-session", "POST /payments/save-session", "GET /funding" }

NextPay ==
  \E r \in Req :
    \/ verifyToken(r, PayRoutes, [op \in Routes |-> Inputs(op)], FALSE)
    \/ postCreateCheckoutSession(r)
    \/ saveSession_retrieve(r)
    \/ saveSession_findOne(r)
    \/ saveSession_insertOne(r)
    \/ getFunding(r)

SpecPay == Init /\ [][NextPay]_vars

\* The life of a donation request: create, donate, the status update and the
\* public list; one request at a time.
LifeRoutes ==
  { "POST /donation-request", "PATCH /donation-request-status/:id",
    "PUT /donation-request/donate/:id", "GET /donation-requests" }

NextLife ==
  \E r \in {1} :
    \/ verifyToken(r, LifeRoutes, [op \in Routes |-> Inputs(op)], FALSE)
    \/ Accept(r, LifeRoutes, [op \in Routes |-> Inputs(op)], FALSE)
    \/ postDonationRequest_findOne(r)
    \/ postDonationRequest_insertOne(r)
    \/ patchDonationRequestStatus(r)
    \/ putDonate(r)
    \/ getDonationRequests(r)

SpecLife == Init /\ [][NextLife]_vars

\* Editing a donation request: create, donate, the content update and delete;
\* one request at a time.
ContentRoutes ==
  { "POST /donation-request", "PUT /donation-request/donate/:id",
    "PUT /donation-request/:id", "DELETE /donation-request/:id" }

NextContent ==
  \E r \in {1} :
    \/ verifyToken(r, ContentRoutes, [op \in Routes |-> Inputs(op)], FALSE)
    \/ postDonationRequest_findOne(r)
    \/ postDonationRequest_insertOne(r)
    \/ putDonate(r)
    \/ putDonationRequest(r)
    \/ deleteDonationRequest(r)

SpecContent == Init /\ [][NextContent]_vars

\* User documents: sign-in, the profile routes and the admin's two updates;
\* one request at a time.
UserRoutes ==
  { "POST /users", "GET /user/:email", "PATCH /user/:email",
    "PATCH /users/role/:id", "PATCH /users/status/:id" }

NextUsers ==
  \E r \in {1} :
    \/ verifyToken(r, UserRoutes, [op \in Routes |-> Inputs(op)], FALSE)
    \/ Accept(r, UserRoutes, [op \in Routes |-> Inputs(op)], FALSE)
    \/ verifyAdmin(r)
    \/ postUsers_findOne(r)
    \/ postUsers_insertOne(r)
    \/ getUser(r)
    \/ patchUser(r)
    \/ patchUserRole(r)
    \/ patchUserStatus(r)

SpecUsers == Init /\ [][NextUsers]_vars

\* The four routes that change or remove a stored request, called by the
\* admin, by a signed-in donor, by a blocked one and by a caller without a
\* user document; one request at a time.
MutateRoutes ==
  { "PUT /donation-request/:id", "PUT /donation-request/donate/:id",
    "PATCH /donation-request-status/:id", "DELETE /donation-request/:id" }

MutateInputs(op) ==
  CASE op = "PATCH /users/status/:id" -> { [NoArg EXCEPT !.id = 2, !.status = "blocked"] }
    [] op = "PATCH /donation-request-status/:id" ->
         { [NoArg EXCEPT !.id = i, !.status = "done"] : i \in 1 .. MaxRequests }
    [] op = "POST /users" -> { [NoArg EXCEPT !.email = "b@x", !.content = "p1"] }
    [] op = "POST /donation-request" ->
         { [NoArg EXCEPT !.requesterEmail = "a@x", !.content = "c1",
                         !.donationDate = "2026-11-20"] }
    [] OTHER -> Inputs(op)

NextMutate ==
  \E r \in {1} :
    \/ verifyToken(r, MutateRoutes \cup { "POST /donation-request", "PATCH /users/status/:id" },
                   [op \in Routes |-> MutateInputs(op)], FALSE)
    \/ Accept(r, { "POST /users" }, [op \in Routes |-> MutateInputs(op)], FALSE)
    \/ verifyAdmin(r)
    \/ postUsers_findOne(r)
    \/ postUsers_insertOne(r)
    \/ patchUserStatus(r)
    \/ postDonationRequest_findOne(r)
    \/ postDonationRequest_insertOne(r)
    \/ putDonationRequest(r)
    \/ putDonate(r)
    \/ patchDonationRequestStatus(r)
    \/ deleteDonationRequest(r)

SpecMutate == Init /\ [][NextMutate]_vars

\* GET /user-stats/:email over the store of a donor with a history: `done`
\* requests of b@x that a@x donated to and completed, then `open` ones that
\* a@x donated to and that are still in progress.
History(done, open) ==
  [i \in 1 .. done + open |->
     [id |-> i, requesterEmail |-> "b@x",
      status |-> IF i <= done THEN "done" ELSE "inprogress",
      donorName |-> "Ann", donorEmail |-> "a@x", content |-> "c1",
      donationDate |-> IF i % 2 = 1 THEN "2026-11-20" ELSE "2026-01-05"]]

InitStats ==
  /\ usersCollection = << SeedAdmin >>
  /\ \E done \in 0 .. MaxDonations, open \in 0 .. 1 :
       /\ requestsCollection = History(done, open)
       /\ nextId = [users |-> 2, requests |-> done + open + 1, blogs |-> 1, payments |-> 1]
  /\ blogsCollection = << >>
  /\ paymentsCollection = << >>
  /\ stripe = TRUE
  /\ inflight = [r \in Req |-> Idle]
  /\ last = NoResponse

NextStats ==
  \E r \in {1} :
    \/ verifyToken(r, { "GET /user-stats/:email" }, [op \in Routes |-> Inputs(op)], FALSE)
    \/ getUserStats_donor(r)
    \/ getUserStats_requester(r)

SpecStats == InitStats /\ [][NextStats]_vars

\* The dashboard over requests with dates that parse, dates that do not and
\* dates rewritten by the content update; one request at a time.
DashRoutes == { "POST /donation-request", "PUT /donation-request/:id", "GET /admin-stats" }

NextDash ==
  \E r \in {1} :
    \/ verifyToken(r, DashRoutes, [op \in Routes |-> Inputs(op)], FALSE)
    \/ verifyVolunteer(r)
    \/ postDonationRequest_findOne(r)
    \/ postDonationRequest_insertOne(r)
    \/ putDonationRequest(r)
    \/ getAdminStats_users(r)
    \/ getAdminStats_requests(r)
    \/ getAdminStats_payments(r)
    \/ getAdminStats_monthly(r)
    \/ getAdminStats_status(r)
    \/ getAdminStats_send(r)

SpecDash == Init /\ [][NextDash]_vars

\* The blog routes, called by the admin and by a caller who is none, with
\* requests overlapping.
BlogRoutes ==
  { "POST /blogs", "PATCH /blogs/status/:id", "DELETE /blogs/:id", "GET /blogs",
    "GET /blogs/:id" }

NextBlogs ==
  \E r \in Req :
    \/ verifyToken(r, BlogRoutes, [op \in Routes |-> Inputs(op)], FALSE)
    \/ Accept(r, BlogRoutes, [op \in Routes |-> Inputs(op)], FALSE)
    \/ verifyAdmin(r)
    \/ postBlogs(r)
    \/ patchBlogStatus(r)
    \/ deleteBlog(r)
    \/ getBlogs(r)
    \/ getBlog(r)

SpecBlogs == Init /\ [][NextBlogs]_vars

\* ------------------------------------------------------------------ claims
\* The step of request r itself: r moves on or is answered.  (A request that
\* is left unanswered because the process died took no step of its own.)
Steps(r) == inflight'[r] # inflight[r] /\ inflight'[r].pc # "hung"

\* C1: every successful POST /donation-request inserts exactly one document,
\* the one its response names, and that document has status "pending",
\* whatever status field the body carried.
C1_CreatedIsPending ==
  [][ (last'.by = "POST /donation-request" /\ last'.code = 200) =>
        /\ Len(requestsCollection') = Len(requestsCollection) + 1
        /\ SubSeq(requestsCollection', 1, Len(requestsCollection)) = requestsCollection
        /\ requestsCollection'[Len(requestsCollection')].id = last'.insertedId
        /\ requestsCollection'[Len(requestsCollection')].status = "pending" ]_vars

\* C1 witness: a create whose body carried status "done" has just been
\* answered, and the stored document is pending.
C1_Witness ==
  /\ last.by = "POST /donation-request"
  /\ last.code = 200
  /\ last.req.arg.status = "done"
  /\ DocById(requestsCollection, last.insertedId, NullRequest).status = "pending"

\* C2: when the lookup of POST /donation-request finds the caller's profile
\* blocked, the request is answered 403 on that step and requestsCollection is
\* left as it was; the request is over, so it never inserts.
C2_BlockedIsRefused ==
  [][ \A r \in Req :
        ( /\ At(r, "POST /donation-request", "handler")
          /\ Caller(r).status = "blocked"
          /\ Steps(r) ) =>
            /\ last'.code = 403
            /\ last'.req = RequestOf(inflight[r])
            /\ inflight'[r] = Idle
            /\ requestsCollection' = requestsCollection ]_vars

\* C2 witness: a blocked caller's create has just been refused.
C2_Witness ==
  /\ last.by = "POST /donation-request"
  /\ last.code = 403
  /\ existingUser(last.req.user).status = "blocked"

\* C3: on the three self-only reads, a token email other than the path email
\* is answered 403 with a body that is a function of the request alone (so it
\* is the same whatever the store holds), and the store is left as it was.
C3_Routes ==
  { "GET /users/role/:email", "GET /donation-requests/:email", "GET /user-stats/:email" }

C3_SelfOnly ==
  [][ \A r \in Req :
        ( /\ inflight[r].op \in C3_Routes
          /\ inflight[r].pc = "handler"
          /\ inflight[r].user # inflight[r].arg.email
          /\ Steps(r) ) =>
            /\ last' = Response(RequestOf(inflight[r]), inflight[r].op, 403,
                                "forbidden access", 0, 0, << >>)
            /\ inflight'[r] = Idle
            /\ store' = store ]_vars

\* C3 witness: a self-only read of another user's path has just been refused,
\* while the store holds that user's profile and a request of theirs.
C3_Witness ==
  /\ last.by \in C3_Routes
  /\ last.code = 403
  /\ last.req.user # last.req.arg.email
  /\ \E i \in 1 .. Len(usersCollection) : usersCollection[i].email = last.req.arg.email
  /\ \E i \in 1 .. Len(requestsCollection) :
       requestsCollection[i].requesterEmail = last.req.arg.email

\* C4: a request for a guarded route without a bearer token, or with a token
\* the identity provider rejects, is answered 401 by verifyToken with nothing
\* read from or written to the store; no later stage of a guarded route ever
\* holds a request whose token was not verified.
C4_Public ==
  { "GET /search-donors", "GET /donation-requests", "POST /users", "GET /blogs",
    "GET /blogs/:id", "GET /", "" }

C4_Unauthenticated ==
  [][ /\ \A r \in Req :
           inflight'[r].op \notin C4_Public =>
             /\ Len(inflight'[r].hdr) >= 2
             /\ verifyIdToken(inflight'[r].hdr[2]) # ""
             /\ verifyIdToken(inflight'[r].hdr[2]) = inflight'[r].user
      /\ last'.code = 401 =>
           /\ last' = Response([NoRequest EXCEPT !.hdr = last'.req.hdr], "verifyToken",
                               401, "Unauthorized Access!", 0, 0, << >>)
           /\ Len(last'.req.hdr) < 2 \/ verifyIdToken(last'.req.hdr[2]) = ""
           /\ store' = store
           /\ nextId' = nextId
           /\ inflight' = inflight ]_vars

\* C4 witness: a forged token has just been answered 401 while the store holds
\* documents the guarded routes would have returned or changed.
C4_Witness ==
  /\ last.code = 401
  /\ last.req.hdr = << "Bearer", "forged" >>
  /\ requestsCollection # << >>
  /\ Len(usersCollection) > 1

\* C5: verifyAdmin lets a request through to its handler exactly when the
\* first user document stored under the verified email has role "admin" at
\* the time of the lookup, and answers 403 otherwise; it changes nothing; and
\* the handlers of the seven admin routes are reached through it only.
C5_Routes ==
  { "GET /all-users", "PATCH /users/status/:id", "PATCH /users/role/:id",
    "GET /all-donation-requests", "POST /blogs", "PATCH /blogs/status/:id",
    "DELETE /blogs/:id" }

C5_AdminOnly ==
  [][ \A r \in Req :
        /\ (inflight[r].pc = "verifyAdmin" /\ Steps(r)) =>
             /\ store' = store
             /\ IF Caller(r).role = "admin"
                THEN /\ inflight'[r] = [inflight[r] EXCEPT !.pc = "handler"]
                     /\ last' = NoResponse
                ELSE /\ inflight'[r] = Idle
                     /\ last'.code = 403
                     /\ last'.req = RequestOf(inflight[r])
        /\ (inflight'[r].op \in C5_Routes /\ inflight'[r].pc = "handler") =>
             \/ inflight[r] = inflight'[r]
             \/ inflight[r] = [inflight'[r] EXCEPT !.pc = "verifyAdmin"]
        /\ (inflight'[r].op \in C5_Routes /\ inflight[r].pc = "idle") =>
             inflight'[r].pc = "verifyAdmin" ]_vars

\* C5 witness: a caller stored as a volunteer has just been refused by
\* verifyAdmin.
C5_Witness ==
  /\ last.by = "verifyAdmin"
  /\ last.code = 403
  /\ last.req.op \in C5_Routes
  /\ existingUser(last.req.user).role = "volunteer"

\* C6: at every role gate (verifyAdmin, verifyVolunteer, the inline check of
\* GET /all-blood-donation-requests) a caller with no stored user document is
\* answered 403, and nothing else happens to the request.
C6_UnknownCallerForbidden ==
  [][ \A r \in Req :
        ( /\ \/ inflight[r].pc \in { "verifyAdmin", "verifyVolunteer" }
             \/ At(r, "GET /all-blood-donation-requests", "handler")
          /\ \A i \in 1 .. Len(usersCollection) : usersCollection[i].email # inflight[r].user
          /\ \A q \in Req \ {r} : inflight[q].pc = "idle"
          /\ inflight'[r] # inflight[r] ) =>
            /\ last'.code = 403
            /\ inflight'[r] = Idle ]_vars

\* C6, the two middlewares alone: there the unknown caller is answered 403.
C6_MiddlewareForbids ==
  [][ \A r \in Req :
        ( /\ inflight[r].pc \in { "verifyAdmin", "verifyVolunteer" }
          /\ \A i \in 1 .. Len(usersCollection) : usersCollection[i].email # inflight[r].user
          /\ Steps(r) ) =>
            /\ last'.code = 403
            /\ inflight'[r] = Idle ]_vars

UniqueEmails(coll) ==
  \A i, j \in 1 .. Len(coll) : coll[i].email = coll[j].email => i = j

\* C7: with no two calls of POST /users overlapping, a call that finds a
\* document with its email leaves usersCollection as it was and answers
\* "user already exists" with insertedId null (0 here), and no two user
\* documents ever share an email.
C7_SequentialSignIn ==
  [][ /\ \A r \in Req :
           ( /\ At(r, "POST /users", "handler")
             /\ \E i \in 1 .. Len(usersCollection) :
                  usersCollection[i].email = inflight[r].arg.email
             /\ Steps(r) ) =>
               /\ usersCollection' = usersCollection
               /\ last'.req = RequestOf(inflight[r])
               /\ last'.code = 200
               /\ last'.message = "user already exists"
               /\ last'.insertedId = 0
               /\ inflight'[r] = Idle
      /\ UniqueEmails(usersCollection') ]_vars

\* C7 witness: a second sign-in with an email that a first one had inserted
\* has just been answered "user already exists".
C7_Witness ==
  /\ last.by = "POST /users"
  /\ last.message = "user already exists"
  /\ last.req.arg.email = "b@x"
  /\ \E i \in 1 .. Len(usersCollection) : usersCollection[i].email = "b@x"

UniqueTransactionIds(coll) ==
  \A i, j \in 1 .. Len(coll) : coll[i].transactionId = coll[j].transactionId => i = j

\* C8: with no two calls of POST /payments/save-session overlapping, a call
\* for a paid session inserts a payment if none is stored under the session
\* id, and otherwise leaves paymentsCollection as it was and answers "Payment
\* already saved" with insertedId null (0 here); no two payments ever share a
\* transactionId.
C8_SequentialSaveSession ==
  [][ /\ \A r \in Req :
           (At(r, "POST /payments/save-session", "findOne") /\ Steps(r)) =>
             IF \E i \in 1 .. Len(paymentsCollection) :
                  paymentsCollection[i].transactionId = inflight[r].arg.sessionId
             THEN /\ paymentsCollection' = paymentsCollection
                  /\ last'.req = RequestOf(inflight[r])
                  /\ last'.code = 200
                  /\ last'.message = "Payment already saved"
                  /\ last'.insertedId = 0
                  /\ inflight'[r] = Idle
             ELSE /\ paymentsCollection' = paymentsCollection
                  /\ inflight'[r].pc = "insertOne"
      /\ \A r \in Req :
           (At(r, "POST /payments/save-session", "insertOne") /\ Steps(r)) =>
             /\ Len(paymentsCollection') = Len(paymentsCollection) + 1
             /\ last'.insertedId # 0
      /\ UniqueTransactionIds(paymentsCollection') ]_vars

\* C8 witness: the replay of a recorded session has just been answered
\* "Payment already saved", and the ledger holds that session once.
C8_Witness ==
  /\ last.by = "POST /payments/save-session"
  /\ last.message = "Payment already saved"
  /\ Cardinality({ i \in 1 .. Len(paymentsCollection) :
                     paymentsCollection[i].transactionId = last.req.arg.sessionId }) = 1

\* C9: the check and the insert of POST /users are two store calls: the check
\* writes nothing, and the insert appends a document with the email of the
\* body whatever usersCollection holds by then.
C9_CheckThenInsertUser ==
  [][ \A r \in Req :
        /\ (At(r, "POST /users", "handler") /\ Steps(r)) =>
             usersCollection' = usersCollection
        /\ (At(r, "POST /users", "insertOne") /\ Steps(r)) =>
             /\ Len(usersCollection') = Len(usersCollection) + 1
             /\ SubSeq(usersCollection', 1, Len(usersCollection)) = usersCollection
             /\ usersCollection'[Len(usersCollection')].email = inflight[r].arg.email ]_vars

\* C9 witness: two user documents share an email.
C9_Witness == ~UniqueEmails(usersCollection)

\* C10: the check and the insert of POST /payments/save-session are two store
\* calls: the check writes nothing, and the insert appends a payment with the
\* session id as transactionId whatever paymentsCollection holds by then.
C10_CheckThenInsertPayment ==
  [][ \A r \in Req :
        /\ (At(r, "POST /payments/save-session", "findOne") /\ Steps(r)) =>
             paymentsCollection' = paymentsCollection
        /\ (At(r, "POST /payments/save-session", "insertOne") /\ Steps(r)) =>
             /\ Len(paymentsCollection') = Len(paymentsCollection) + 1
             /\ SubSeq(paymentsCollection', 1, Len(paymentsCollection)) = paymentsCollection
             /\ paymentsCollection'[Len(paymentsCollection')].transactionId =
                  inflight[r].arg.sessionId ]_vars

\* C10 witness: two payments share a transactionId.
C10_Witness == ~UniqueTransactionIds(paymentsCollection)

\* C11: PUT /donation-request/donate/:id on a stored request leaves it with
\* status "inprogress" and the donor of the body, whatever its status and
\* donor were, so a second donate overwrites the first; its other fields and
\* every other request stay as they were.
C11_DonateOverwrites ==
  [][ \A r \in Req :
        (At(r, "PUT /donation-request/donate/:id", "handler") /\ Steps(r)) =>
          /\ Len(requestsCollection') = Len(requestsCollection)
          /\ \A i \in 1 .. Len(requestsCollection) :
               IF requestsCollection[i].id = inflight[r].arg.id
               THEN requestsCollection'[i] =
                      [requestsCollection[i] EXCEPT
                         !.status = "inprogress",
                         !.donorName = inflight[r].arg.donorName,
                         !.donorEmail = inflight[r].arg.donorEmail]
               ELSE requestsCollection'[i] = requestsCollection[i] ]_vars

\* C11 witness: a donate has just been applied to a stored request, which now
\* is in progress with the donor of the body.
C11_Witness ==
  /\ last.by = "PUT /donation-request/donate/:id"
  /\ last.count = 1
  /\ last.req.arg.donorEmail = "b@x"
  /\ DocById(requestsCollection, last.req.arg.id, NullRequest).status = "inprogress"
  /\ DocById(requestsCollection, last.req.arg.id, NullRequest).donorEmail = "b@x"

\* C12: GET /donation-requests, which takes no token, answers with exactly the
\* stored requests whose status is "pending", in store order.
C12_PublicPending ==
  [][ \A r \in Req :
        (At(r, "GET /donation-requests", "handler") /\ Steps(r)) =>
          /\ inflight[r].hdr = << >>
          /\ last'.code = 200
          /\ last'.req = RequestOf(inflight[r])
          /\ \A i \in 1 .. Len(requestsCollection) :
               requestsCollection[i].status = "pending" <=>
                 \E k \in 1 .. Len(last'.data) : last'.data[k] = requestsCollection[i]
          /\ \A k \in 1 .. Len(last'.data) :
               \E i \in 1 .. Len(requestsCollection) :
                 /\ last'.data[k] = requestsCollection[i]
                 /\ requestsCollection[i].status = "pending"
          /\ Len(last'.data) =
               Cardinality({ i \in 1 .. Len(requestsCollection) :
                               requestsCollection[i].status = "pending" }) ]_vars

\* C12 witness: the public list has just been answered with one request while
\* the store holds a pending request and one that is not pending.
C12_Witness ==
  /\ last.by = "GET /donation-requests"
  /\ Len(last.data) = 1
  /\ last.data[1].status = "pending"
  /\ \E i \in 1 .. Len(requestsCollection) : requestsCollection[i].status \notin {"pending"}

\* C13: a user document is inserted with role "donor" and status "active"
\* whatever the sign-in body says; afterwards its role changes only in the
\* handler of PATCH /users/role/:id and its status only in the handler of
\* PATCH /users/status/:id, each for the id of the path; PATCH /user/:email
\* changes no role and no status; user documents are never removed.
C13_RoleAndStatus ==
  [][ /\ Len(usersCollection') >= Len(usersCollection)
      /\ \A i \in 1 .. Len(usersCollection) :
           /\ usersCollection'[i].id = usersCollection[i].id
           /\ usersCollection'[i].role # usersCollection[i].role =>
                \E r \in Req :
                  /\ At(r, "PATCH /users/role/:id", "handler")
                  /\ Steps(r)
                  /\ inflight[r].arg.id = usersCollection[i].id
           /\ usersCollection'[i].status # usersCollection[i].status =>
                \E r \in Req :
                  /\ At(r, "PATCH /users/status/:id", "handler")
                  /\ Steps(r)
                  /\ inflight[r].arg.id = usersCollection[i].id
      /\ \A i \in Len(usersCollection) + 1 .. Len(usersCollection') :
           /\ usersCollection'[i].role = "donor"
           /\ usersCollection'[i].status = "active"
      /\ \A r \in Req :
           (At(r, "PATCH /user/:email", "handler") /\ Steps(r)) =>
             /\ Len(usersCollection') = Len(usersCollection)
             /\ \A i \in 1 .. Len(usersCollection) :
                  /\ usersCollection'[i].role = usersCollection[i].role
                  /\ usersCollection'[i].status = usersCollection[i].status ]_vars

\* C13 witness: a sign-in whose body asked for role "admin" and status
\* "blocked" has just inserted a document, which is an active donor.
C13_Witness ==
  /\ last.by = "POST /users"
  /\ last.insertedId # 0
  /\ last.req.arg.role = "admin"
  /\ last.req.arg.status = "blocked"
  /\ DocById(usersCollection, last.insertedId, NullUser).role = "donor"
  /\ DocById(usersCollection, last.insertedId, NullUser).status = "active"

\* C14: GET /user/:email and PATCH /user/:email return or change a profile
\* only for the caller whose token email is the email of the path: for any
\* other caller no document is returned and usersCollection stays as it was.
C14_ProfileSelfOnly ==
  [][ \A r \in Req :
        ( /\ inflight[r].op \in { "GET /user/:email", "PATCH /user/:email" }
          /\ inflight[r].pc = "handler"
          /\ inflight[r].user # inflight[r].arg.email
          /\ Steps(r) ) =>
            /\ usersCollection' = usersCollection
            /\ last'.data = << >> ]_vars

\* C15: a donation request is inserted only while the stored status of its
\* creator, the user of the token, is not "blocked": at every insert step of
\* POST /donation-request, however it interleaves with the admin's
\* PATCH /users/status/:id.
C15_InsertOnlyIfNotBlocked ==
  [][ \A r \in Req :
        (At(r, "POST /donation-request", "insertOne") /\ Steps(r)) =>
          Caller(r).status # "blocked" ]_vars

\* C15, without an interleaved status update: the creator was not blocked
\* when the handler looked the caller up.
C15_NotBlockedAtLookup ==
  [][ \A r \in Req :
        (At(r, "POST /donation-request", "handler") /\ Steps(r)
           /\ inflight'[r].pc = "insertOne") =>
          (~IsNull(Caller(r)) /\ Caller(r).status # "blocked") ]_vars

\* C16: paymentsCollection changes only by the insert of a payment for a
\* session that a configured processor reports as paid; the first step of
\* POST /payments/save-session answers 500 without a processor, 500 when the
\* verification throws and 400 for an unpaid session, and writes nothing.
C16_OnlyPaidIsRecorded ==
  [][ /\ paymentsCollection' # paymentsCollection =>
           /\ stripe
           /\ \E r \in Req :
                /\ At(r, "POST /payments/save-session", "insertOne")
                /\ Steps(r)
                /\ retrieve(inflight[r].arg.sessionId).payment_status = "paid"
                /\ Len(paymentsCollection') = Len(paymentsCollection) + 1
                /\ SubSeq(paymentsCollection', 1, Len(paymentsCollection)) = paymentsCollection
                /\ paymentsCollection'[Len(paymentsCollection')].transactionId =
                     inflight[r].arg.sessionId
      /\ \A r \in Req :
           (At(r, "POST /payments/save-session", "handler") /\ Steps(r)) =>
             /\ paymentsCollection' = paymentsCollection
             /\ CASE ~stripe ->
                       last'.code = 500 /\ inflight'[r] = Idle
                  [] stripe /\ retrieve(inflight[r].arg.sessionId).payment_status = "throws" ->
                       last'.code = 500 /\ inflight'[r] = Idle
                  [] stripe /\ retrieve(inflight[r].arg.sessionId).payment_status = "unpaid" ->
                       last'.code = 400 /\ inflight'[r] = Idle
                  [] OTHER ->
                       last' = NoResponse /\ inflight'[r].pc = "findOne" ]_vars

\* C16 witness: an unpaid session has just been answered 400 and the ledger,
\* which holds another session's payment, has no entry for it.
C16_Witness ==
  /\ last.by = "POST /payments/save-session"
  /\ last.code = 400
  /\ paymentsCollection # << >>
  /\ \A i \in 1 .. Len(paymentsCollection) :
       paymentsCollection[i].transactionId # last.req.arg.sessionId

\* C17: no step changes or removes a recorded payment: the ledger of the next
\* state starts with the ledger of this one, field by field.
C17_PaymentsImmutable ==
  [][ /\ Len(paymentsCollection') >= Len(paymentsCollection)
      /\ \A i \in 1 .. Len(paymentsCollection) :
           /\ paymentsCollection'[i].transactionId = paymentsCollection[i].transactionId
           /\ paymentsCollection'[i].name = paymentsCollection[i].name
           /\ paymentsCollection'[i].email = paymentsCollection[i].email
           /\ paymentsCollection'[i].amount = paymentsCollection[i].amount
           /\ paymentsCollection'[i].date = paymentsCollection[i].date
           /\ paymentsCollection'[i].id = paymentsCollection[i].id ]_vars

\* C17 witness: GET /funding has just listed two payments latest first, and
\* the ledger still holds them in the order of their inserts.
C17_Witness ==
  /\ last.by = "GET /funding"
  /\ Len(last.data) = 2
  /\ Len(paymentsCollection) = 2
  /\ last.data[1] = paymentsCollection[2]
  /\ paymentsCollection[1].date < paymentsCollection[2].date

\* C18: PATCH /donation-request-status/:id writes the status of the body over
\* the status of the stored request whatever that was; the request's other
\* fields and every other request stay as they were.
C18_StatusOverwrite ==
  [][ \A r \in Req :
        (At(r, "PATCH /donation-request-status/:id", "handler") /\ Steps(r)) =>
          /\ Len(requestsCollection') = Len(requestsCollection)
          /\ \A i \in 1 .. Len(requestsCollection) :
               IF requestsCollection[i].id = inflight[r].arg.id
               THEN requestsCollection'[i] =
                      [requestsCollection[i] EXCEPT !.status = inflight[r].arg.status]
               ELSE requestsCollection'[i] = requestsCollection[i] ]_vars

\* C18 witness: a status update to "pending" has just been applied to a
\* request that has a donor, that is, one that had left "pending" before.
C18_Witness ==
  /\ last.by = "PATCH /donation-request-status/:id"
  /\ last.count = 1
  /\ last.req.arg.status = "pending"
  /\ DocById(requestsCollection, last.req.arg.id, NullRequest).status = "pending"
  /\ DocById(requestsCollection, last.req.arg.id, NullRequest).donorEmail \in Emails

\* C19: every stored donation request has a status among pending,
\* inprogress, done and canceled.
C19_StatusInDomain ==
  \A i \in 1 .. Len(requestsCollection) : requestsCollection[i].status \in RequestStatuses

\* C20: PUT /donation-request/:id writes the content fields of the body to the
\* stored request and leaves its status, donorName, donorEmail, requesterEmail
\* and id, every other request and every other collection as they were.
C20_ContentOnly ==
  [][ \A r \in Req :
        (At(r, "PUT /donation-request/:id", "handler") /\ Steps(r)) =>
          /\ Len(requestsCollection') = Len(requestsCollection)
          /\ \A i \in 1 .. Len(requestsCollection) :
               IF requestsCollection[i].id = inflight[r].arg.id
               THEN /\ requestsCollection'[i].content = inflight[r].arg.content
                    /\ requestsCollection'[i].donationDate = inflight[r].arg.donationDate
                    /\ requestsCollection'[i].status = requestsCollection[i].status
                    /\ requestsCollection'[i].donorName = requestsCollection[i].donorName
                    /\ requestsCollection'[i].donorEmail = requestsCollection[i].donorEmail
                    /\ requestsCollection'[i].requesterEmail =
                         requestsCollection[i].requesterEmail
                    /\ requestsCollection'[i].id = requestsCollection[i].id
               ELSE requestsCollection'[i] = requestsCollection[i]
          /\ usersCollection' = usersCollection
          /\ blogsCollection' = blogsCollection
          /\ paymentsCollection' = paymentsCollection ]_vars

\* C20 witness: a content update whose body also carried status "done" and
\* donor a@x has just been applied to a request in progress with donor b@x,
\* which has the new content and is still in progress with donor b@x.
C20_Witness ==
  /\ last.by = "PUT /donation-request/:id"
  /\ last.count = 1
  /\ last.req.arg.status = "done"
  /\ last.req.arg.donorEmail = "a@x"
  /\ DocById(requestsCollection, last.req.arg.id, NullRequest).content = "c2"
  /\ DocById(requestsCollection, last.req.arg.id, NullRequest).status = "inprogress"
  /\ DocById(requestsCollection, last.req.arg.id, NullRequest).donorEmail = "b@x"

\* C21: the four routes that change or remove a stored request run their
\* handler right after verifyToken and never refuse: whoever the caller of the
\* token is, the request with the id of the path is written (content, donor
\* or status) or removed, and the answer counts one match.
C21_AnyCallerMutates ==
  [][ \A r \in Req :
        /\ (inflight[r].pc = "idle" /\ inflight'[r].op \in MutateRoutes) =>
             inflight'[r].pc = "handler"
        /\ ( /\ inflight[r].op \in MutateRoutes
             /\ inflight[r].pc = "handler"
             /\ Steps(r)
             /\ \E i \in 1 .. Len(requestsCollection) :
                  requestsCollection[i].id = inflight[r].arg.id ) =>
               /\ last'.code = 200
               /\ last'.count = 1
               /\ inflight'[r] = Idle
               /\ IF inflight[r].op = "DELETE /donation-request/:id"
                  THEN /\ Len(requestsCollection') = Len(requestsCollection) - 1
                       /\ \A i \in 1 .. Len(requestsCollection') :
                            requestsCollection'[i].id # inflight[r].arg.id
                       /\ \A i \in 1 .. Len(requestsCollection) :
                            requestsCollection[i].id # inflight[r].arg.id =>
                              \E k \in 1 .. Len(requestsCollection') :
                                requestsCollection'[k] = requestsCollection[i]
                  ELSE \E i \in 1 .. Len(requestsCollection') :
                         /\ requestsCollection'[i].id = inflight[r].arg.id
                         /\ CASE inflight[r].op = "PUT /donation-request/:id" ->
                                   requestsCollection'[i].content = inflight[r].arg.content
                              [] inflight[r].op = "PUT /donation-request/donate/:id" ->
                                   requestsCollection'[i].donorEmail = inflight[r].arg.donorEmail
                              [] OTHER ->
                                   requestsCollection'[i].status = inflight[r].arg.status ]_vars

\* C21 witness: a blocked donor has just deleted a stored request.
C21_Witness ==
  /\ last.by = "DELETE /donation-request/:id"
  /\ last.count = 1
  /\ existingUser(last.req.user).status = "blocked"
  /\ existingUser(last.req.user).role = "donor"
  /\ IsNull(DocById(requestsCollection, last.req.arg.id, NullRequest))

\* C22 as stated: the level in the answer of GET /user-stats/:email is Bronze
\* for fewer than 5 donations, Silver from 5 and Gold from 10, where the
\* donations are the stored requests with this donorEmail and status "done".
C22_LevelFromThresholds ==
  [][ \A r \in Req :
        (At(r, "GET /user-stats/:email", "requesterStats") /\ Steps(r)) =>
          LET d == Cardinality({ i \in 1 .. Len(requestsCollection) :
                                   /\ requestsCollection[i].donorEmail = inflight[r].arg.email
                                   /\ requestsCollection[i].status = "done" })
          IN  /\ last'.data[1].donations = d
              /\ d < 5 => last'.data[1].level = "Bronze"
              /\ (d >= 5 /\ d < 10) => last'.data[1].level = "Silver"
              /\ d >= 10 => last'.data[1].level = "Gold" ]_vars

\* C22 amended: the level is Bronze up to 5 donations, Silver for more than 5
\* and Gold for more than 10; the donations are the stored requests with this
\* donorEmail and status "done", and no other.
C22_LevelAboveThresholds ==
  [][ \A r \in Req :
        (At(r, "GET /user-stats/:email", "requesterStats") /\ Steps(r)) =>
          LET d == Cardinality({ i \in 1 .. Len(requestsCollection) :
                                   /\ requestsCollection[i].donorEmail = inflight[r].arg.email
                                   /\ requestsCollection[i].status = "done" })
          IN  /\ last'.data[1].donations = d
              /\ d <= 5 => last'.data[1].level = "Bronze"
              /\ (d > 5 /\ d <= 10) => last'.data[1].level = "Silver"
              /\ d > 10 => last'.data[1].level = "Gold" ]_vars

\* C22 witness: a donor with exactly 5 completed donations, and one still in
\* progress, has just been told level Bronze.
C22_Witness ==
  /\ last.by = "GET /user-stats/:email"
  /\ last.code = 200
  /\ last.data[1].donations = 5
  /\ last.data[1].level = "Bronze"
  /\ Len(requestsCollection) = 6

\* The sum of the counts of a set of buckets.
RECURSIVE SumCounts(_)
SumCounts(buckets) ==
  IF buckets = {} THEN 0
  ELSE LET b == CHOOSE x \in buckets : TRUE
       IN  b.count + SumCounts(buckets \ {b})

\* C23: in GET /admin-stats the monthly series has one bucket per (year,
\* month), its counts sum to the number of stored requests, a request whose
\* donationDate does not parse is counted in the bucket of the current month,
\* and the series is part of the answer.
C23_MonthlySeries ==
  [][ \A r \in Req :
        (At(r, "GET /admin-stats", "userStats") /\ Steps(r)) =>
          /\ SumCounts(inflight[r].loc.monthlyStats) = Len(requestsCollection)
          /\ \A i \in 1 .. Len(requestsCollection) :
               ~ParseDate(requestsCollection[i].donationDate).valid =>
                 \E b \in inflight[r].loc.monthlyStats : b.key = Now /\ b.count >= 1
          /\ last'.code = 200
          /\ "monthlyStats" \in DOMAIN last'.data[1]
          /\ last'.data[1].monthlyStats = inflight[r].loc.monthlyStats ]_vars

\* C23, the aggregation alone: the series the handler computes has one bucket
\* per (year, month) present, the counts sum to the number of stored requests
\* and the requests whose date does not parse are in the current month's.
C23_MonthlyBuckets ==
  [][ \A r \in Req :
        (At(r, "GET /admin-stats", "monthlyStats") /\ Steps(r)) =>
          LET series == inflight'[r].loc.monthlyStats
          IN  /\ \A b, c \in series : b.key = c.key => b = c
              /\ SumCounts(series) = Len(requestsCollection)
              /\ \A b \in series :
                   b.count >= Cardinality({ i \in 1 .. Len(requestsCollection) :
                                /\ ParseDate(requestsCollection[i].donationDate).valid
                                /\ ParseDate(requestsCollection[i].donationDate).year = b.key.year
                                /\ ParseDate(requestsCollection[i].donationDate).month = b.key.month })
              /\ \A b \in series :
                   b.key = Now =>
                     b.count = Cardinality({ i \in 1 .. Len(requestsCollection) :
                                 \/ ~ParseDate(requestsCollection[i].donationDate).valid
                                 \/ /\ ParseDate(requestsCollection[i].donationDate).year = Now.year
                                    /\ ParseDate(requestsCollection[i].donationDate).month = Now.month })
              /\ (\E i \in 1 .. Len(requestsCollection) :
                    ~ParseDate(requestsCollection[i].donationDate).valid) =>
                   \E b \in series : b.key = Now ]_vars

\* The blog operations behind verifyAdmin.
C24_AdminBlogOps == { "POST /blogs", "PATCH /blogs/status/:id", "DELETE /blogs/:id" }

\* C24: a blog is inserted with status "draft" whatever status the body
\* carries; the blogs change only in the handler of POST /blogs, PATCH
\* /blogs/status/:id or DELETE /blogs/:id, which a request enters only from
\* verifyAdmin with an admin's token; GET /blogs without a status filter
\* answers with every stored blog, drafts included.
C24_BlogsDraftAndAdminOnly ==
  [][ /\ \A r \in Req :
           /\ (At(r, "POST /blogs", "handler") /\ Steps(r)) =>
                /\ Len(blogsCollection') = Len(blogsCollection) + 1
                /\ blogsCollection'[Len(blogsCollection')].status = "draft"
                /\ blogsCollection'[Len(blogsCollection')].content = inflight[r].arg.content
                /\ \A i \in 1 .. Len(blogsCollection) : blogsCollection'[i] = blogsCollection[i]
           /\ ( /\ inflight'[r].op \in C24_AdminBlogOps
                /\ inflight'[r].pc = "handler"
                /\ inflight[r] # inflight'[r] ) =>
                  /\ inflight[r].pc = "verifyAdmin"
                  /\ inflight[r].op = inflight'[r].op
                  /\ \E i \in 1 .. Len(usersCollection) :
                       /\ usersCollection[i].email = inflight[r].user
                       /\ usersCollection[i].role = "admin"
           /\ (inflight[r].pc = "idle" /\ inflight'[r].op \in C24_AdminBlogOps) =>
                inflight'[r].pc = "verifyAdmin"
           /\ ( /\ At(r, "GET /blogs", "handler")
                /\ Steps(r)
                /\ inflight[r].arg.status = "" ) =>
                  /\ last'.code = 200
                  /\ last'.data = blogsCollection
                  /\ inflight[r].hdr = << >>
      /\ blogsCollection' # blogsCollection =>
           \E r \in Req :
             /\ inflight[r].op \in C24_AdminBlogOps
             /\ inflight[r].pc = "handler"
             /\ Steps(r) ]_vars

\* C24 witness: a GET /blogs without a token and without a status filter has
\* just listed the stored blog, which is a draft.
C24_Witness ==
  /\ last.by = "GET /blogs"
  /\ last.req.arg.status = ""
  /\ last.req.hdr = << >>
  /\ Len(last.data) = 1
  /\ last.data[1].status = "draft"
  /\ last.data = blogsCollection

\* C25: the requesterEmail stored by POST /donation-request is the verified
\* token email of the caller, so that GET /donation-requests/:email, which
\* answers its caller with the requests stored under that email, lists the
\* requests that this caller created.
C25_RequesterIsCaller ==
  [][ \A r \in Req :
        /\ (At(r, "POST /donation-request", "insertOne") /\ Steps(r)) =>
             /\ Len(requestsCollection') = Len(requestsCollection) + 1
             /\ requestsCollection'[Len(requestsCollection')].requesterEmail =
                  inflight[r].user
        /\ ( /\ At(r, "GET /donation-requests/:email", "handler")
             /\ Steps(r)
             /\ last'.code = 200
             /\ inflight[r].arg.status = "" ) =>
               /\ inflight[r].arg.email = inflight[r].user
               /\ \A i \in 1 .. Len(requestsCollection) :
                    requestsCollection[i].requesterEmail = inflight[r].user <=>
                      \E k \in 1 .. Len(last'.data) :
                        last'.data[k] = requestsCollection[i] ]_vars

\* C26: a POST /donation-request that passed verifyToken is answered exactly
\* once, by the insert result or by a 403, also when no user document is
\* stored under the caller's email: the step after the lookup either goes on
\* to the insert or answers 403, the insert step answers 200 with the new id,
\* and no such request is left without an answer.
C26_CreateIsAnswered ==
  [][ \A r \in Req :
        /\ (At(r, "POST /donation-request", "handler") /\ inflight'[r] # inflight[r]) =>
             \/ /\ inflight'[r].pc = "insertOne"
                /\ inflight'[r].op = inflight[r].op
             \/ /\ inflight'[r] = Idle
                /\ last'.req = RequestOf(inflight[r])
                /\ last'.code = 403
        /\ (At(r, "POST /donation-request", "insertOne") /\ inflight'[r] # inflight[r]) =>
             /\ inflight'[r] = Idle
             /\ last'.req = RequestOf(inflight[r])
             /\ last'.code = 200
             /\ last'.insertedId > 0
        /\ inflight[r].op = "POST /donation-request" => inflight'[r].pc # "hung" ]_vars

\* C27: in every reachable state a stored request whose status is
\* "inprogress" or "done" has donorName and donorEmail set, and a request
\* whose status is "pending" has neither.
C27_DonorFieldsFollowStatus ==
  \A i \in 1 .. Len(requestsCollection) :
    /\ requestsCollection[i].status \in {"inprogress", "done"} =>
         /\ requestsCollection[i].donorName # Undefined
         /\ requestsCollection[i].donorEmail # Undefined
    /\ requestsCollection[i].status = "pending" =>
         /\ requestsCollection[i].donorName = Undefined
         /\ requestsCollection[i].donorEmail = Undefined

====
